---------------------------- MODULE Spec2Model ----------------------------
(***************************************************************************)
(* Dependency Sorter v0.1.0 (src/dependency-sorter.js): a depth-first      *)
(* topological sort followed by a weight sort that stops at dependency     *)
(* boundaries.                                                             *)
(*                                                                         *)
(* Array indices are the JavaScript ones (0-based); Elem(arr, k) reads     *)
(* arr[k].  A raw record carries an object identity `obj`, and each of its *)
(* three properties is a tagged value: <<"absent">> when the property is   *)
(* undefined, <<"value", v>>, <<"number", n>>, <<"scalar", s>> or          *)
(* <<"array", seq>> otherwise.                                             *)
(***************************************************************************)
EXTENDS Integers, Sequences, FiniteSets, TLC

VARIABLES
  caller,    \* contents of the array object the caller holds
  original,  \* contents of the caller's array when the call was made
  nodes,     \* contents of the array the local variable `nodes` refers to
  shared,    \* TRUE while `nodes` refers to the caller's array object
  pc,        \* position in sort / sortByWeight
  i,         \* index of the outer runInRange of sortByWeight
  j,         \* index of the runInRange inside swapInRange
  calls,     \* number of calls made so far
  first,     \* what the first call returned
  result     \* <<>> while nothing was returned, <<array>> once returned

vars == <<caller, original, nodes, shared, pc, i, j, calls, first, result>>

--------------------------------------------------------------------------
(* Bounds of the explored inputs *)

MaxLen == 3
MaxWeight == 2
NumIds == 2
MaxCalls == 2

IdNames == <<"a", "b", "c", "d">>
Ids == {IdNames[k] : k \in 1..NumIds}
Weights == (0 - MaxWeight)..MaxWeight

--------------------------------------------------------------------------
(* Serializer *)

defaultWeight == 0

TEMPORARY_MARK == 1
PERMANENT_MARK == 2
UNMARKED == 0

\* JavaScript truthiness of a depends property value
Truthy(d) ==
  CASE d[1] = "absent" -> FALSE
    [] d[1] = "scalar" -> d[2] # ""
    [] OTHER -> TRUE

serialize(node) ==
  [ id      |-> IF node.id[1] # "absent" THEN node.id ELSE <<"object", node.obj>>,
    weight  |-> IF node.weight[1] = "number" THEN node.weight[2] ELSE defaultWeight,
    depends |-> IF Truthy(node.depends)
                  THEN IF node.depends[1] = "array" THEN node.depends[2]
                                                     ELSE <<node.depends[2]>>
                  ELSE <<>>,
    mark    |-> UNMARKED,
    node    |-> node ]

deserialize(node) == node.node

\* nodes.map(serializer.serialize), nodes.map(serializer.deserialize)
mapSerialize(arr) == [k \in 1..Len(arr) |-> serialize(arr[k])]
mapDeserialize(arr) == [k \in 1..Len(arr) |-> deserialize(arr[k])]

\* ~depends.indexOf(id): strict equality of a depends entry with an id
indexOf(depends, id) ==
  \E q \in 1..Len(depends) : id[1] = "value" /\ depends[q] = id[2]

--------------------------------------------------------------------------
(* sortByDepends *)

unshiftBack(res, k) == Append(res, k)

unshift(res, k) == <<k>> \o res

ignoreCircular(st) == st

\* throw new Error('Circular dependency encountered: ' + node.id)
throwCircular(st) == [st EXCEPT !.threw = TRUE]

RECURSIVE visit(_, _, _), visitDependents(_, _, _, _)

\* st = [mark: position -> mark, result: positions, threw: BOOLEAN]
visit(ns, st, k) ==
  IF st.threw THEN st
  ELSE CASE st.mark[k] = TEMPORARY_MARK -> throwCircular(st)
         [] st.mark[k] = PERMANENT_MARK -> st
         [] OTHER ->
              LET st1 == [st EXCEPT !.mark[k] = TEMPORARY_MARK]
                  st2 == visitDependents(ns, st1, k, 1)
              IN IF st2.threw THEN st2
                 ELSE [st2 EXCEPT !.mark[k] = PERMANENT_MARK,
                                  !.result = unshift(@, k)]

visitDependents(ns, st, k, q) ==
  IF q > Len(ns) \/ st.threw THEN st
  ELSE visitDependents(ns,
         IF indexOf(ns[q].depends, ns[k].id) THEN visit(ns, st, q) ELSE st,
         k, q + 1)

RECURSIVE forEachVisit(_, _, _)
forEachVisit(ns, st, k) ==
  IF k > Len(ns) \/ st.threw THEN st
  ELSE forEachVisit(ns,
         IF st.mark[k] = UNMARKED THEN visit(ns, st, k) ELSE st,
         k + 1)

sortByDepends(ns) ==
  forEachVisit(ns, [mark |-> [k \in 1..Len(ns) |-> ns[k].mark],
                    result |-> <<>>, threw |-> FALSE], 1)

\* the node objects as the call leaves them (marks are written in place)
Marked(ns, st) == [k \in 1..Len(ns) |-> [ns[k] EXCEPT !.mark = st.mark[k]]]
\* the array sortByDepends returns
Sorted(ns, st) == [k \in 1..Len(st.result) |-> Marked(ns, st)[st.result[k]]]

--------------------------------------------------------------------------
(* runInRange / swapInRange / sortByWeight *)

Defined(arr, k) == k >= 0 /\ k < Len(arr)
Elem(arr, k) == arr[k + 1]

SwapElemsLosingOne(arr, k, n) == [arr EXCEPT ![n + 1] = arr[k + 1]]

\* arr[n] = a; arr[i] = b
SwapElems(arr, k, n) == [arr EXCEPT ![n + 1] = arr[k + 1], ![k + 1] = arr[n + 1]]

\* var step = from < to ? 1 : -1
rangeStep(from, to) == IF from < to THEN 1 ELSE 0 - 1

negDependsCompareSwapped(node, next) == ~indexOf(next.depends, node.id)

\* "Swap down until a dependency"
negDependsCompare(node, next) == ~indexOf(node.depends, next.id)
\* "Swap up until end of equal weight"
negWeightCompare(node, next) == node.weight > next.weight
\* "Swap up until a dependency"
posDependsCompare(node, next) == ~indexOf(next.depends, node.id)
posWeightCompareFlipped(node, next) == node.weight > next.weight

\* "Swap down until end of equal weight"
posWeightCompare(node, next) == node.weight < next.weight

\* the last index the positive pass visits is the one before `to`
positiveTo == 0

\* runInRange(result, result.length - 2, 0, ...) is entered
enterPositive(arr) ==
  IF Len(arr) - 2 = positiveTo THEN [pc |-> "deserialize", i |-> 0]
  ELSE [pc |-> "posScan", i |-> Len(arr) - 2]

\* runInRange(result, 1, result.length, ...) is entered
enterNegative(arr) ==
  IF 1 = Len(arr) THEN enterPositive(arr)
  ELSE [pc |-> "negScan", i |-> 1]

\* i += step of the negative pass, after the callback returned undefined
nextNegative(arr, k) ==
  LET n == k + rangeStep(1, Len(arr))
  IN IF n = Len(arr) THEN enterPositive(arr) ELSE [pc |-> "negScan", i |-> n]

\* i += step of the positive pass
nextPositive(arr, k) ==
  LET n == k + rangeStep(Len(arr) - 2, positiveTo)
  IN IF n = positiveTo THEN [pc |-> "deserialize", i |-> 0]
     ELSE [pc |-> "posScan", i |-> n]

Goto(t) == pc' = t.pc /\ i' = t.i

\* a write to the array `nodes` refers to
Write(arr) == nodes' = arr /\ caller' = IF shared THEN arr ELSE caller

--------------------------------------------------------------------------
(* sort *)

serializeNodesInPlace ==
  /\ pc = "serialize"
  /\ nodes' = mapSerialize(nodes)
  /\ caller' = IF shared THEN nodes' ELSE caller
  /\ pc' = "sortByDepends"
  /\ UNCHANGED <<shared, original, i, j, calls, first, result>>

\* nodes = nodes.map(serializer.serialize)
serializeNodes ==
  /\ pc = "serialize"
  /\ nodes' = mapSerialize(nodes)
  /\ shared' = FALSE
  /\ pc' = "sortByDepends"
  /\ UNCHANGED <<caller, original, i, j, calls, first, result>>

sortNodesByDependency ==
  /\ pc = "sortByDepends"
  /\ LET st == sortByDepends(nodes)
     IN IF st.threw
          THEN /\ pc' = "cycle"
               /\ nodes' = Marked(nodes, st)
               /\ caller' = IF shared THEN nodes' ELSE caller
               /\ UNCHANGED <<shared, i>>
          ELSE /\ nodes' = Sorted(nodes, st)
               /\ shared' = FALSE
               /\ Goto(enterNegative(Sorted(nodes, st)))
               /\ UNCHANGED caller
  /\ UNCHANGED <<original, j, calls, first, result>>

\* the callback of the negative pass at index i
negativeScan ==
  /\ pc = "negScan"
  /\ IF ~Defined(nodes, i) \/ (Elem(nodes, i).weight < 0 /\ i = 0)
       THEN pc' = "typeerror" /\ UNCHANGED <<i, j>>
       ELSE IF Elem(nodes, i).weight < 0
              THEN pc' = "negDown" /\ j' = i /\ UNCHANGED i
              ELSE Goto(nextNegative(nodes, i)) /\ UNCHANGED j
  /\ UNCHANGED <<caller, original, nodes, shared, calls, first, result>>

\* swapInRange(arr, nodePos, i, ...) of the negative pass is entered
startNegativeUp(p) ==
  IF p = i THEN Goto(nextNegative(nodes, i)) /\ UNCHANGED j
  ELSE pc' = "negUp" /\ j' = p /\ UNCHANGED i

\* one callback of swapInRange(arr, i, 0, ...) at index j
negativeDown ==
  /\ pc = "negDown"
  /\ LET n == j + rangeStep(i, 0)
     IN IF ~negDependsCompare(Elem(nodes, j), Elem(nodes, n))
          THEN startNegativeUp(j) /\ UNCHANGED <<nodes, caller>>
          ELSE /\ Write(SwapElems(nodes, j, n))
               /\ IF n = 0 THEN startNegativeUp(n)
                  ELSE j' = n /\ UNCHANGED <<pc, i>>
  /\ UNCHANGED <<original, shared, calls, first, result>>

\* one callback of swapInRange(arr, nodePos, i, ...) at index j
negativeUp ==
  /\ pc = "negUp"
  /\ LET n == j + rangeStep(j, i)
     IN IF ~negWeightCompare(Elem(nodes, j), Elem(nodes, n))
          THEN Goto(nextNegative(nodes, i)) /\ UNCHANGED <<j, nodes, caller>>
          ELSE /\ Write(SwapElems(nodes, j, n))
               /\ IF n = i THEN Goto(nextNegative(nodes, i)) /\ UNCHANGED j
                  ELSE j' = n /\ UNCHANGED <<pc, i>>
  /\ UNCHANGED <<original, shared, calls, first, result>>

\* the callback of the positive pass at index i
positiveScan ==
  /\ pc = "posScan"
  /\ IF ~Defined(nodes, i) \/ (Elem(nodes, i).weight > 0 /\ i = Len(nodes) - 1)
       THEN pc' = "typeerror" /\ UNCHANGED <<i, j>>
       ELSE IF Elem(nodes, i).weight > 0
              THEN pc' = "posUp" /\ j' = i /\ UNCHANGED i
              ELSE Goto(nextPositive(nodes, i)) /\ UNCHANGED j
  /\ UNCHANGED <<caller, original, nodes, shared, calls, first, result>>

\* swapInRange(arr, nodePos, i, ...) of the positive pass is entered
startPositiveDown(p) ==
  IF p = i THEN Goto(nextPositive(nodes, i)) /\ UNCHANGED j
  ELSE pc' = "posDown" /\ j' = p /\ UNCHANGED i

\* one callback of swapInRange(arr, i, arr.length - 1, ...) at index j
positiveUp ==
  /\ pc = "posUp"
  /\ LET n == j + rangeStep(i, Len(nodes) - 1)
     IN IF ~posDependsCompare(Elem(nodes, j), Elem(nodes, n))
          THEN startPositiveDown(j) /\ UNCHANGED <<nodes, caller>>
          ELSE /\ Write(SwapElems(nodes, j, n))
               /\ IF n = Len(nodes) - 1 THEN startPositiveDown(n)
                  ELSE j' = n /\ UNCHANGED <<pc, i>>
  /\ UNCHANGED <<original, shared, calls, first, result>>

\* one callback of swapInRange(arr, nodePos, i, ...) at index j
positiveDown ==
  /\ pc = "posDown"
  /\ LET n == j + rangeStep(j, i)
     IN IF ~posWeightCompare(Elem(nodes, j), Elem(nodes, n))
          THEN Goto(nextPositive(nodes, i)) /\ UNCHANGED <<j, nodes, caller>>
          ELSE /\ Write(SwapElems(nodes, j, n))
               /\ IF n = i THEN Goto(nextPositive(nodes, i)) /\ UNCHANGED j
                  ELSE j' = n /\ UNCHANGED <<pc, i>>
  /\ UNCHANGED <<original, shared, calls, first, result>>

\* deserializeNodes(); return nodes
deserializeNodes ==
  /\ pc = "deserialize"
  /\ nodes' = mapDeserialize(nodes)
  /\ shared' = FALSE
  /\ result' = <<nodes'>>
  /\ first' = IF calls = 1 THEN nodes' ELSE first
  /\ pc' = "done"
  /\ UNCHANGED <<caller, original, i, j, calls>>

\* the caller passes what sort returned to sort again
sortAgain ==
  /\ pc = "done"
  /\ calls < MaxCalls
  /\ caller' = result[1]
  /\ original' = result[1]
  /\ nodes' = result[1]
  /\ shared' = TRUE
  /\ result' = <<>>
  /\ calls' = calls + 1
  /\ pc' = "serialize"
  /\ UNCHANGED <<i, j, first>>

--------------------------------------------------------------------------
(* Inputs *)

RawIds == {<<"absent">>} \cup {<<"value", s>> : s \in Ids}
\* a record leaves weight out (and gets defaultWeight) or gives another number
RawWeights == {<<"absent">>} \cup {<<"number", w>> : w \in Weights \ {defaultWeight}}
\* depends left out, a single id, an array of one id, the array of all ids
RawDepends ==
  {<<"absent">>, <<"scalar", IdNames[1]>>, <<"array", [k \in 1..NumIds |-> IdNames[k]]>>}
    \cup {<<"array", <<s>>>> : s \in Ids \ {IdNames[1]}}

Shapes == [id : RawIds, weight : RawWeights, depends : RawDepends]

\* the record object at position k of the caller's array
Record(k, shape) ==
  [obj |-> k, id |-> shape.id, weight |-> shape.weight, depends |-> shape.depends]

\* README.md, "Example - Arrange a Queue of People" (idProperty: "name")
Infinity == 1000000

Person(k, name, weight, depends) ==
  [obj |-> k, id |-> <<"value", name>>, weight |-> weight, depends |-> depends]

People ==
  << Person(1, "Jim", <<"absent">>, <<"absent">>),
     Person(2, "Donna", <<"number", 0 - 100>>, <<"absent">>),
     Person(3, "Billie", <<"number", 0 - 5>>, <<"absent">>),
     Person(4, "Chris", <<"number", Infinity>>, <<"absent">>),
     Person(5, "Jerk", <<"number", 100>>, <<"array", <<"Chris">>>>),
     Person(6, "Sherry", <<"number", 0 - Infinity>>, <<"scalar", "Donna">>),
     Person(7, "Dillon", <<"number", 10>>, <<"absent">>),
     Person(8, "Tom", <<"number", 0 - 10>>, <<"array", <<"Donna", "Sherry">>>>) >>

BoundedInput(arr) ==
  \E n \in 0..MaxLen : \E f \in [1..n -> Shapes] :
    arr = [k \in 1..n |-> Record(k, f[k])]

Init ==
  /\ (BoundedInput(caller) \/ caller = People)
  /\ original = caller
  /\ nodes = caller
  /\ shared = TRUE
  /\ pc = "serialize"
  /\ i = 0
  /\ j = 0
  /\ calls = 1
  /\ first = <<>>
  /\ result = <<>>

Next ==
  \/ serializeNodes
  \/ sortNodesByDependency
  \/ negativeScan
  \/ negativeDown
  \/ negativeUp
  \/ positiveScan
  \/ positiveUp
  \/ positiveDown
  \/ deserializeNodes
  \/ sortAgain

Spec == Init /\ [][Next]_vars

--------------------------------------------------------------------------
(* The exposed utility: a caller holds serialized nodes and calls           *)
(* util.sortByDepends on them, possibly again on the same node objects.     *)

utilSortByDepends ==
  /\ pc \in {"util", "utilReturned", "utilThrew"}
  /\ calls < MaxCalls
  /\ LET st == sortByDepends(caller)
     IN /\ caller' = Marked(caller, st)
        /\ result' = IF st.threw THEN <<>> ELSE <<Sorted(caller, st)>>
        /\ pc' = IF st.threw THEN "utilThrew" ELSE "utilReturned"
        /\ first' = IF calls = 0 THEN <<pc', result'>> ELSE first
  /\ calls' = calls + 1
  /\ UNCHANGED <<original, nodes, shared, i, j>>

InitUtil ==
  /\ \E arr \in {People} : caller = mapSerialize(arr)
     \/ \E n \in 0..MaxLen : \E f \in [1..n -> Shapes] :
          caller = [k \in 1..n |-> serialize(Record(k, f[k]))]
  /\ original = caller
  /\ nodes = <<>>
  /\ shared = FALSE
  /\ pc = "util"
  /\ i = 0
  /\ j = 0
  /\ calls = 0
  /\ first = <<>>
  /\ result = <<>>

NextUtil == utilSortByDepends

SpecUtil == InitUtil /\ [][NextUtil]_vars

--------------------------------------------------------------------------
(* Properties *)

\* q depends on p: q's depends list contains p's id (serialized nodes)
dependsOn(q, p) == indexOf(q.depends, p.id)
recordDependsOn(q, p) == dependsOn(serialize(q), serialize(p))

\* the depends-on edges among the nodes of ns, as pairs of positions
DependsEdges(ns) ==
  {e \in (1..Len(ns)) \X (1..Len(ns)) : dependsOn(ns[e[1]], ns[e[2]])}

RECURSIVE Closure(_, _)
Closure(R, k) ==
  IF k = 0 THEN R
  ELSE Closure(R \cup {<<e[1][1], e[2][2]>> : e \in {f \in R \X R : f[1][2] = f[2][1]}},
               k - 1)

Reach(ns) == Closure(DependsEdges(ns), Len(ns))

\* the positions left after removing, again and again, every node that depends
\* on no node left: a cycle exists exactly when some remain
RECURSIVE Peel(_, _)
Peel(ns, S) ==
  LET free == {k \in S : \A m \in S : ~dependsOn(ns[k], ns[m])}
  IN IF free = {} THEN S ELSE Peel(ns, S \ free)

HasCycle(ns) == Peel(ns, 1..Len(ns)) # {}
RecordsHaveCycle(recs) == HasCycle(mapSerialize(recs))

NoDependencies(recs) ==
  \A p, q \in 1..Len(recs) : p # q => ~recordDependsOn(recs[q], recs[p])

Count(arr, r) == Cardinality({k \in 1..Len(arr) : arr[k] = r})
SameRecords(arr, recs) ==
  /\ Len(arr) = Len(recs)
  /\ \A k \in 1..Len(recs) : Count(arr, recs[k]) = Count(recs, recs[k])

WeightPhase == {"negScan", "negDown", "negUp", "posScan", "posUp", "posDown"}

\* C1: in the sequence sort returns, every record appears before every other
\* record whose depends list contains its id, whatever the weights are.
C1_TopologicalValidity ==
  pc = "done" =>
    \A p, q \in 1..Len(nodes) :
      (p # q /\ recordDependsOn(nodes[q], nodes[p])) => p < q

\* a returned sequence in which a negative-weight record depends on a
\* positive-weight one: both weights pull across the dependency
C1_Witness ==
  /\ pc = "done"
  /\ \E p, q \in 1..Len(nodes) :
       /\ p # q
       /\ recordDependsOn(nodes[q], nodes[p])
       /\ serialize(nodes[q]).weight < 0
       /\ serialize(nodes[p]).weight > 0

\* C2: the circular-dependency error is raised exactly when the depends-on
\* graph among the input records has a cycle, and then nothing is returned.
C2_CycleDetection ==
  /\ pc = "cycle" => (RecordsHaveCycle(original) /\ result = <<>>)
  /\ pc \in {"done", "typeerror", "deserialize"} => ~RecordsHaveCycle(original)

\* the error raised for a cycle through three records, none depending on itself
C2_Witness ==
  /\ pc = "cycle"
  /\ Len(original) >= 3
  /\ \A k \in 1..Len(original) : ~recordDependsOn(original[k], original[k])

\* C3: the cycle error is the only error sort raises: for an acyclic input sort
\* returns a sequence and raises nothing.
C3_OnlyCycleError ==
  pc = "typeerror" => RecordsHaveCycle(original)

\* C4: for an input in which no record depends on another, the returned
\* sequence is non-decreasing in weight.
C4_WeightMonotone ==
  (pc = "done" /\ NoDependencies(nodes)) =>
    \A p, q \in 1..Len(nodes) :
      p < q => serialize(nodes[p]).weight <= serialize(nodes[q]).weight

\* C5: sorting what sort returned returns the same sequence.
C5_Idempotent ==
  (pc = "done" /\ calls = 2) => nodes = first

\* C6: the caller's array holds the same records at the same indices during
\* and after the call, whether it returns or raises, and a returned result is
\* another array object.
C6_InputNotMutated ==
  /\ caller = original
  /\ pc = "done" => (~shared /\ result = <<nodes>>)

\* a call that returned three or more records in another order than the input's
C6_Witness ==
  /\ pc = "done"
  /\ Len(nodes) >= 3
  /\ nodes # caller

\* C7: the README's queue of people sorts to Donna, Sherry, Tom, Billie, Jim,
\* Dillon, Chris, Jerk.
C7_ReadmeExample ==
  (pc = "done" /\ calls = 1 /\ original = People) =>
    [k \in 1..8 |-> nodes[k].id[2]] =
      <<"Donna", "Sherry", "Tom", "Billie", "Jim", "Dillon", "Chris", "Jerk">>

C7_Witness ==
  pc = "done" /\ calls = 1 /\ original = People

\* C9: sort returns a permutation of its input, and the array holds exactly
\* the input's records after every swap of sortByWeight.
C9_Permutation ==
  /\ pc \in WeightPhase \cup {"deserialize"} =>
       SameRecords(mapDeserialize(nodes), original)
  /\ pc = "done" => SameRecords(nodes, original)

\* inside swapInRange of the positive pass, after a swap
C9_Witness ==
  pc = "posUp" /\ j > i /\ Len(nodes) >= 3

--------------------------------------------------------------------------
(* Properties of util.sortByDepends, under SpecUtil *)

\* the records of a node array, in its order
RecordsOf(ns) == [k \in 1..Len(ns) |-> ns[k].node]

\* the index in the returned array of the node at position p of the input
ReturnedAt(p) ==
  CHOOSE k \in 1..Len(result[1]) : result[1][k].node = original[p].node

Independent(ns, p, q) == <<p, q>> \notin Reach(ns) /\ <<q, p>> \notin Reach(ns)

\* C8 as stated: two nodes with no dependency relationship between them are
\* returned by sortByDepends in their input order.
C8_Stable ==
  (pc = "utilReturned" /\ calls = 1) =>
    \A p, q \in 1..Len(original) :
      (p < q /\ Independent(original, p, q)) => ReturnedAt(p) < ReturnedAt(q)

\* C8 as amended: for an input with no dependency between any two nodes (and
\* no node depending on its own id) sortByDepends returns the nodes in the
\* reverse of their input order.
C8_ReversedWithoutDependencies ==
  (pc = "utilReturned" /\ calls = 1 /\ DependsEdges(original) = {}) =>
    RecordsOf(result[1]) =
      [k \in 1..Len(original) |-> original[Len(original) + 1 - k].node]

C8_Witness ==
  /\ pc = "utilReturned"
  /\ calls = 1
  /\ DependsEdges(original) = {}
  /\ Len(original) >= 3

\* C10: a second call of sortByDepends on the same nodes returns what the first
\* call, made on freshly serialized nodes, returned.
C10_MarkIndependent ==
  (calls = 2 /\ first[1] = "utilReturned") =>
    (pc = "utilReturned" /\ RecordsOf(result[1]) = RecordsOf(first[2][1]))

==========================================================================
